---- MODULE Spec2Model ----
(***************************************************************************)
(* Model of the infestor code-mutation engine (python/infestor):           *)
(* manager.PackageFileManager, visitors.PackageFileVisitor,                *)
(* visitors.DecoratorCandidatesVisitor, the transformers, the operations   *)
(* built on them, manager.get_reporter_import_information and              *)
(* operations.add_reporter.                                                *)
(*                                                                         *)
(* A source file is a header (comment / blank lines owned by the Module)   *)
(* and a body, a sequence of statements.  A statement is                   *)
(*   [t |-> "line",  lead, nl, body]      a SimpleStatementLine holding a  *)
(*                                        sequence of small statements     *)
(*   [t |-> "def",   lead, name, decos, body]   a FunctionDef              *)
(*   [t |-> "class", lead, name, body]          a ClassDef                 *)
(*   [t |-> "block", lead, body]          an if/with/for at any level      *)
(*   [t |-> "try",   lead, body, handlers]      a Try with ExceptHandlers  *)
(* lead is the number of leading blank/comment lines of the node and nl    *)
(* the number of lines a simple statement spans.  Strings that the code    *)
(* takes apart (import paths, scope paths) are sequences of tokens, a      *)
(* token being a name or ".".                                              *)
(*                                                                         *)
(* PackageFileVisitor is constructed from (reporter_module_path,           *)
(* relative_imports), the two parameters its __init__ declares.            *)
(***************************************************************************)
EXTENDS Integers, Sequences, FiniteSets, TLC

(***************************************************************************)
(* Program constants                                                       *)
(***************************************************************************)
CALL_TYPE_SYSTEM_REPORT == "system_report"
CALL_TYPE_SETUP_EXCEPTHOOK == "setup_excepthook"
DECORATOR_TYPE_RECORD_CALL == "record_call"
DECORATOR_TYPE_RECORD_ERRORS == "record_errors"
ERROR_REPORT_CALL == "error_report"

CallTypes == {CALL_TYPE_SYSTEM_REPORT, CALL_TYPE_SETUP_EXCEPTHOOK}
DecoratorTypes == {DECORATOR_TYPE_RECORD_CALL, DECORATOR_TYPE_RECORD_ERRORS}

(***************************************************************************)
(* Syntax tree constructors                                                *)
(***************************************************************************)
Import == [s |-> "import"]
ImportFrom(level, module, names) ==
    [s |-> "from", level |-> level, module |-> module, names |-> names]
ImportAlias(name, asname) == [name |-> name, asname |-> asname]
ExprCall(recv, attr, arg) == [s |-> "call", recv |-> recv, attr |-> attr, arg |-> arg]
AssignCall(recv, attr) == [s |-> "assign", recv |-> recv, attr |-> attr]
Other(tag) == [s |-> "other", tag |-> tag]

Line(lead, nl, body) == [t |-> "line", lead |-> lead, nl |-> nl, body |-> body]
Def(lead, name, decos, body) ==
    [t |-> "def", lead |-> lead, name |-> name, decos |-> decos, body |-> body]
Class(lead, name, body) == [t |-> "class", lead |-> lead, name |-> name, body |-> body]
Block(lead, body) == [t |-> "block", lead |-> lead, body |-> body]
Try(lead, body, handlers) ==
    [t |-> "try", lead |-> lead, body |-> body, handlers |-> handlers]
Handler(lead, type, asname, body) ==
    [lead |-> lead, type |-> type, asname |-> asname, body |-> body]
Decorator(recv, attr) == [recv |-> recv, attr |-> attr]

(***************************************************************************)
(* Source positions (libcst PositionProvider as the visitors and           *)
(* transformers read it): the position of a statement starts after its     *)
(* leading lines, and the position of a FunctionDef starts at its "def"    *)
(* keyword, after its decorators.                                          *)
(***************************************************************************)
RECURSIVE Height(_), BodyHeight(_), HandlersHeight(_)
Height(st) ==
    CASE st.t = "line" -> st.lead + st.nl
      [] st.t = "def" -> st.lead + Len(st.decos) + 1 + BodyHeight(st.body)
      [] st.t \in {"class", "block"} -> st.lead + 1 + BodyHeight(st.body)
      [] st.t = "try" ->
            st.lead + 1 + BodyHeight(st.body) + HandlersHeight(st.handlers)

BodyHeight(body) ==
    IF body = <<>> THEN 0 ELSE Height(Head(body)) + BodyHeight(Tail(body))

HandlersHeight(hs) ==
    IF hs = <<>> THEN 0
    ELSE Head(hs).lead + 1 + BodyHeight(Head(hs).body) + HandlersHeight(Tail(hs))

(* Line of the first statement of the body *)
FirstLine(file) == file.header + 1


(***************************************************************************)
(* Document-order traversal: the visit_* events a CSTVisitor receives,     *)
(* each with its position and the scope stack at that point.               *)
(***************************************************************************)
RECURSIVE SmallEvents(_, _, _, _)
SmallEvents(smalls, line, nl, scope) ==
    IF smalls = <<>> THEN <<>>
    ELSE LET sm == Head(smalls)
             ev == CASE sm.s = "import" ->
                          <<[e |-> "import", line |-> line, endline |-> line + nl - 1,
                             scope |-> scope]>>
                     [] sm.s = "from" ->
                          <<[e |-> "from", line |-> line, endline |-> line + nl - 1,
                             scope |-> scope, level |-> sm.level,
                             module |-> sm.module, names |-> sm.names]>>
                     [] sm.s \in {"call", "assign"} ->
                          <<[e |-> "call", line |-> line, scope |-> scope,
                             recv |-> sm.recv, attr |-> sm.attr]>>
                     [] OTHER -> <<>>
         IN ev \o SmallEvents(Tail(smalls), line, nl, scope)

RECURSIVE Events(_, _, _), StmtEvents(_, _, _), HandlerEvents(_, _, _)
StmtEvents(st, line0, scope) ==
    LET l == line0 + st.lead IN
    CASE st.t = "line" -> SmallEvents(st.body, l, st.nl, scope)
      [] st.t = "def" ->
            LET dl == l + Len(st.decos)
                inner == Append(scope, st.name)
            IN <<[e |-> "def", line |-> dl, scope |-> inner,
                  decos |-> [i \in 1..Len(st.decos) |->
                               [recv |-> st.decos[i].recv, attr |-> st.decos[i].attr,
                                line |-> l + i - 1]]]>>
               \o Events(st.body, dl + 1, inner)
      [] st.t = "class" -> Events(st.body, l + 1, Append(scope, st.name))
      [] st.t = "block" -> Events(st.body, l + 1, scope)
      [] st.t = "try" ->
            Events(st.body, l + 1, scope)
            \o HandlerEvents(st.handlers, l + 1 + BodyHeight(st.body), scope)

Events(body, line0, scope) ==
    IF body = <<>> THEN <<>>
    ELSE StmtEvents(Head(body), line0, scope)
         \o Events(Tail(body), line0 + Height(Head(body)), scope)

HandlerEvents(hs, line0, scope) ==
    IF hs = <<>> THEN <<>>
    ELSE LET h == Head(hs) IN
         Events(h.body, line0 + h.lead + 1, scope)
         \o HandlerEvents(Tail(hs), line0 + h.lead + 1 + BodyHeight(h.body), scope)

FileEvents(file) == Events(file.body, FirstLine(file), <<>>)

(***************************************************************************)
(* Strings as token sequences                                              *)
(***************************************************************************)
RECURSIVE LeadingDots(_)
LeadingDots(path) ==
    IF path # <<>> /\ Head(path) = "." THEN 1 + LeadingDots(Tail(path)) ELSE 0

IsName(tok) == tok # "."

NamesOf(tokens) == SelectSeq(tokens, IsName)

(* str.rsplit(".", 1)[0] *)
RECURSIVE RSplitHead(_)
RSplitHead(path) ==
    IF \A i \in 1..Len(path) : path[i] # "." THEN path
    ELSE IF path[Len(path)] = "." THEN SubSeq(path, 1, Len(path) - 1)
    ELSE RSplitHead(SubSeq(path, 1, Len(path) - 1))

(* ".".join(names) *)
RECURSIVE JoinDots(_)
JoinDots(names) ==
    IF Len(names) <= 1 THEN names
    ELSE <<Head(names), ".">> \o JoinDots(Tail(names))

(* path[n:] *)
DropTokens(path, n) == SubSeq(path, n + 1, Len(path))

(***************************************************************************)
(* manager.get_reporter_import_information.  A file-system path is the     *)
(* sequence of its components (Path.parts), None is the empty path.  The   *)
(* configuration is the record the manager reads: project_name,            *)
(* relative_imports, reporter_token, reporter_filepath and                 *)
(* reporter_object_name.  The result is the triple the function returns    *)
(* and err, the exception it raised instead.                               *)
(***************************************************************************)
None == <<>>

InfestorConfiguration(project_name, relative_imports, reporter_token, reporter_filepath, reporter_object_name) ==
    [project_name |-> project_name, relative_imports |-> relative_imports,
     reporter_token |-> reporter_token, reporter_filepath |-> reporter_filepath,
     reporter_object_name |-> reporter_object_name]

RECURSIVE CommonLength(_, _)
CommonLength(p, q) ==
    IF p = <<>> \/ q = <<>> THEN 0
    ELSE IF Head(p) # Head(q) THEN 0
    ELSE 1 + CommonLength(Tail(p), Tail(q))

(* os.path.commonpath([p, q]) *)
commonpath(p, q) == SubSeq(p, 1, CommonLength(p, q))

(* Path(os.path.relpath(path, start=start)).parts; "." has no parts *)
relpath(path, start) ==
    LET k == CommonLength(path, start) IN
    [i \in 1..(Len(start) - k) |-> ".."] \o SubSeq(path, k + 1, Len(path))

(* mutant: the suffix is kept *)
splitext_keeps(filename) == filename

(* os.path.splitext(filename)[0] *)
splitext(filename) ==
    CASE filename = "report.py" -> "report"
      [] filename = "reporter.py" -> "reporter"
      [] filename = "some_submodule.py" -> "some_submodule"
      [] OTHER -> filename

(* os.path.basename(path) *)
basename(path) == IF path = <<>> THEN "" ELSE path[Len(path)]

ImportInformation(import_path, relative_imports, reporter_object_name) ==
    [path |-> import_path, relative |-> relative_imports, name |-> reporter_object_name,
     err |-> ""]

NoImportInformation(err) == [path |-> <<>>, relative |-> FALSE, name |-> "", err |-> err]

(* parts[:-1] + [splitext(parts[-1])[0]] *)
ModuleComponents(parts) ==
    Append(SubSeq(parts, 1, Len(parts) - 1), splitext(parts[Len(parts)]))

(* mutant: the reporter is taken to be report.py in the repository,         *)
(* whatever the configuration records                                      *)
get_reporter_import_information_default(repository, submodule_path, configuration) ==
    ImportInformation(<<basename(repository), ".", "report">>,
                      configuration.relative_imports, configuration.reporter_object_name)

get_reporter_import_information(repository, submodule_path, configuration) ==
    IF configuration.reporter_filepath = None
    THEN NoImportInformation("GenerateReporterError")
    ELSE IF configuration.relative_imports
    THEN LET common_ancestor == commonpath(submodule_path, configuration.reporter_filepath)
             common_ancestor_to_submodule_path == relpath(submodule_path, common_ancestor)
             common_ancestor_to_reporter_relpath ==
                 relpath(configuration.reporter_filepath, common_ancestor)
             num_dots == Len(common_ancestor_to_submodule_path) - 1
             import_dots == [i \in 1..num_dots |-> "."]
         IN IF common_ancestor_to_reporter_relpath = <<>>
            THEN NoImportInformation("IndexError")
            ELSE ImportInformation(
                     import_dots \o <<".">>
                         \o JoinDots(ModuleComponents(common_ancestor_to_reporter_relpath)),
                     configuration.relative_imports, configuration.reporter_object_name)
    ELSE LET repository_to_reporter_path == relpath(configuration.reporter_filepath, repository)
         IN IF repository_to_reporter_path = <<>>
            THEN NoImportInformation("IndexError")
            ELSE ImportInformation(
                     <<basename(repository), ".">>
                         \o JoinDots(ModuleComponents(repository_to_reporter_path)),
                     configuration.relative_imports, configuration.reporter_object_name)

(***************************************************************************)
(* visitors.PackageFileVisitor                                             *)
(***************************************************************************)
VisitorInit ==
    [ReporterImportedAs |-> "", ReporterImportedAt |-> -1,
     ReporterCorrectlyImported |-> FALSE, last_import_lineno |-> 0,
     calls |-> <<>>, decorators |-> <<>>, crash |-> FALSE]

matches_with_package_import(module, reporter_module_path) ==
    /\ Len(module) = 2
    /\ <<module[1]>> = RSplitHead(reporter_module_path)
    /\ module[2] = "report"

RECURSIVE check_alias_for_reporter(_, _, _)
check_alias_for_reporter(v, import_aliases, line) ==
    IF import_aliases = <<>> THEN v
    ELSE LET alias == Head(import_aliases)
             v1 == IF alias.name = "reporter"
                   THEN [v EXCEPT
                           !.ReporterImportedAs =
                               IF alias.asname # "" THEN alias.asname ELSE alias.name,
                           !.ReporterImportedAt = line,
                           !.ReporterCorrectlyImported = (line = v.last_import_lineno + 1)]
                   ELSE v
         IN check_alias_for_reporter(v1, Tail(import_aliases), line)

visit_Import(v, ev) ==
    IF ev.scope # <<>> THEN v ELSE [v EXCEPT !.last_import_lineno = ev.endline]

(* mutant: imports in function and class bodies are examined too *)
visit_ImportFrom_any_scope(v, ev, cfg) ==
    IF cfg.relative
    THEN IF ev.level = LeadingDots(cfg.path) /\ ev.module # <<>>
              /\ ev.module = DropTokens(cfg.path, LeadingDots(cfg.path))
         THEN check_alias_for_reporter(v, ev.names, ev.line)
         ELSE v
    ELSE IF matches_with_package_import(ev.module, cfg.path)
         THEN check_alias_for_reporter(v, ev.names, ev.line)
         ELSE v

visit_ImportFrom(v, ev, cfg) ==
    IF ev.scope # <<>> THEN v
    ELSE IF cfg.relative
    THEN LET expected_level == LeadingDots(cfg.path) IN
         IF ev.level = expected_level
         THEN IF ev.module = <<>>
              THEN [v EXCEPT !.crash = TRUE]
              ELSE LET v1 == IF /\ Len(ev.module) = 1
                                /\ <<ev.module[1]>> = DropTokens(cfg.path, expected_level)
                             THEN check_alias_for_reporter(v, ev.names, ev.line)
                             ELSE v
                   IN [v1 EXCEPT !.last_import_lineno = ev.endline]
         ELSE [v EXCEPT !.last_import_lineno = ev.endline]
    ELSE LET v1 == IF matches_with_package_import(ev.module, cfg.path)
                   THEN check_alias_for_reporter(v, ev.names, ev.line)
                   ELSE v
         IN [v1 EXCEPT !.last_import_lineno = ev.endline]

visit_Call(v, ev) ==
    IF v.ReporterImportedAt = -1 THEN v
    ELSE IF ev.recv = v.ReporterImportedAs
    THEN [v EXCEPT !.calls = Append(@, [call_type |-> ev.attr, lineno |-> ev.line,
                                        scope_stack |-> JoinDots(ev.scope)])]
    ELSE v

RECURSIVE ReporterDecoratorsOf(_, _, _)
ReporterDecoratorsOf(decos, imported_as, scope) ==
    IF decos = <<>> THEN <<>>
    ELSE LET d == Head(decos)
             rec == IF d.attr # "" /\ d.recv = imported_as
                    THEN <<[decorator_type |-> d.attr, lineno |-> d.line,
                            scope_stack |-> JoinDots(scope)]>>
                    ELSE <<>>
         IN rec \o ReporterDecoratorsOf(Tail(decos), imported_as, scope)

visit_FunctionDef(v, ev) ==
    [v EXCEPT !.decorators =
        @ \o ReporterDecoratorsOf(ev.decos, v.ReporterImportedAs, ev.scope)]

RECURSIVE VisitEvents(_, _, _)
VisitEvents(v, evs, cfg) ==
    IF evs = <<>> \/ v.crash THEN v
    ELSE LET ev == Head(evs)
             v1 == CASE ev.e = "import" -> visit_Import(v, ev)
                     [] ev.e = "from" -> visit_ImportFrom(v, ev, cfg)
                     [] ev.e = "call" -> visit_Call(v, ev)
                     [] ev.e = "def" -> visit_FunctionDef(v, ev)
         IN VisitEvents(v1, Tail(evs), cfg)

(* PackageFileManager._visit *)
Visit(file, cfg) == VisitEvents(VisitorInit, FileEvents(file), cfg)

(* mutant: the import check never finds the reporter *)
is_reporter_imported_never(v) == FALSE

is_reporter_imported(v) == v.ReporterImportedAt # -1 /\ v.ReporterImportedAs # ""

get_calls(v, call_type) ==
    SelectSeq(v.calls, LAMBDA c : c.call_type = call_type)

list_decorators(v, decorator_type) ==
    SelectSeq(v.decorators, LAMBDA d : d.decorator_type = decorator_type)

(***************************************************************************)
(* visitors.DecoratorCandidatesVisitor                                     *)
(***************************************************************************)
matches_with_reporter_decorator(d, reporter_imported_as, decorator_type) ==
    d.recv = reporter_imported_as /\ d.attr = decorator_type

RECURSIVE CandidatesOf(_, _, _)
CandidatesOf(evs, reporter_imported_as, decorator_type) ==
    IF evs = <<>> THEN <<>>
    ELSE LET ev == Head(evs)
             cand == IF ev.e = "def"
                        /\ \A i \in 1..Len(ev.decos) :
                             ~matches_with_reporter_decorator(
                                 ev.decos[i], reporter_imported_as, decorator_type)
                     THEN <<[scope_stack |-> JoinDots(ev.scope), lineno |-> ev.line]>>
                     ELSE <<>>
         IN cand \o CandidatesOf(Tail(evs), reporter_imported_as, decorator_type)

decorator_candidates(file, v, decorator_type) ==
    CandidatesOf(FileEvents(file), v.ReporterImportedAs, decorator_type)

(***************************************************************************)
(* transformers: module-level rewrites                                     *)
(***************************************************************************)
matches_import(st) ==
    /\ st.t = "line"
    /\ \A i \in 1..Len(st.body) : st.body[i].s \in {"import", "from"}

(* index of the statement visit_Module leaves in self.last_import, 0 for None *)
LastImportIndex(body) ==
    LET idx == {i \in 1..Len(body) : matches_import(body[i])}
    IN IF idx = {} THEN 0 ELSE CHOOSE i \in idx : \A j \in idx : j <= i

InsertAfter(body, i, st) ==
    SubSeq(body, 1, i) \o <<st>> \o SubSeq(body, i + 1, Len(body))

(* cst.parse_statement(f"from {reporter_module_path} import {reporter_object_name}") *)
ParseReporterImport(reporter_module_path, reporter_object_name) ==
    LET level == LeadingDots(reporter_module_path) IN
    Line(0, 1, <<ImportFrom(level, NamesOf(DropTokens(reporter_module_path, level)),
                            <<ImportAlias(reporter_object_name, "")>>)>>)

ImportReporterTransformer(body, reporter_module_path, reporter_object_name) ==
    InsertAfter(body, LastImportIndex(body),
                ParseReporterImport(reporter_module_path, reporter_object_name))

CallStatement(reporter_imported_as, call_type) ==
    Line(0, 1, <<ExprCall(reporter_imported_as, call_type, "")>>)

(* [raised, body]: leave_Module raises when there is no import statement *)
ReporterCallsAdderTransformer(body, reporter_imported_as, call_type) ==
    LET last_import == LastImportIndex(body) IN
    IF last_import = 0
    THEN [raised |-> TRUE, body |-> body]
    ELSE [raised |-> FALSE,
          body |-> InsertAfter(body, last_import,
                               CallStatement(reporter_imported_as, call_type))]

(* mutant: the receiver of the call is not compared with the binding *)
matches_reporter_call_any_receiver(st, reporter_imported_as, call_type) ==
    /\ st.t = "line"
    /\ Len(st.body) = 1
    /\ st.body[1].s = "call"
    /\ st.body[1].attr = call_type

(* mutant: the attribute of the call is not compared with the call type *)
matches_reporter_call_any_type(st, reporter_imported_as, call_type) ==
    /\ st.t = "line"
    /\ Len(st.body) = 1
    /\ st.body[1].s = "call"
    /\ st.body[1].recv = reporter_imported_as

matches_reporter_call(st, reporter_imported_as, call_type) ==
    /\ st.t = "line"
    /\ Len(st.body) = 1
    /\ st.body[1].s = "call"
    /\ st.body[1].recv = reporter_imported_as
    /\ st.body[1].attr = call_type

(* mutant: leave_Module keeps every statement *)
ReporterCallsRemoverTransformer_keeps(body, reporter_imported_as, call_type) == body

ReporterCallsRemoverTransformer(body, reporter_imported_as, call_type) ==
    SelectSeq(body, LAMBDA st : ~matches_reporter_call(st, reporter_imported_as, call_type))

(***************************************************************************)
(* transformers: rewrites of function definitions and except handlers.     *)
(* p = [mode, as, kind, lines] names the transformer and its parameters.   *)
(***************************************************************************)
HasReporterDecorator(decos, reporter_imported_as, decorator_type) ==
    \E i \in 1..Len(decos) :
        matches_with_reporter_decorator(decos[i], reporter_imported_as, decorator_type)

DecoratorsAdder_leave_FunctionDef(p, st, line) ==
    IF line \notin p.lines THEN st
    ELSE IF HasReporterDecorator(st.decos, p.as, p.kind) THEN st
    ELSE [st EXCEPT !.decos = <<Decorator(p.as, p.kind)>> \o @]

DecoratorsRemover_leave_FunctionDef(p, st, line) ==
    IF line \notin p.lines THEN st
    ELSE [st EXCEPT !.decos =
            SelectSeq(@, LAMBDA d : ~matches_with_reporter_decorator(d, p.as, p.kind))]

matches_error_report_statement(st, reporter_imported_as, except_as_name) ==
    /\ st.t = "line"
    /\ Len(st.body) = 1
    /\ st.body[1].s = "call"
    /\ st.body[1].recv = reporter_imported_as
    /\ st.body[1].attr = ERROR_REPORT_CALL
    /\ st.body[1].arg = except_as_name

TryExceptAdder_leave_ExceptHandler(p, h, func_scope) ==
    IF func_scope = <<>> THEN h
    ELSE IF func_scope[Len(func_scope)] \notin p.lines THEN h
    ELSE LET asname == IF h.asname # "" THEN h.asname ELSE "e"
             except_type == IF h.type = "" THEN "BaseException" ELSE h.type
             has_called_error_report ==
                 \E i \in 1..Len(h.body) :
                     matches_error_report_statement(h.body[i], p.as, asname)
             new_inner_body ==
                 IF has_called_error_report THEN h.body
                 ELSE <<Line(0, 1, <<ExprCall(p.as, ERROR_REPORT_CALL, asname)>>)>> \o h.body
         IN [h EXCEPT !.asname = asname, !.type = except_type, !.body = new_inner_body]

TryExceptRemover_leave_ExceptHandler(p, h, func_scope) ==
    IF func_scope = <<>> THEN h
    ELSE IF func_scope[Len(func_scope)] \notin p.lines THEN h
    ELSE IF h.type = "" THEN h
    ELSE IF h.asname = "" THEN h
    ELSE [h EXCEPT !.body =
            SelectSeq(@, LAMBDA st : ~matches_error_report_statement(st, p.as, h.asname))]

leave_FunctionDef(p, st, line) ==
    CASE p.mode = "DecoratorsAdder" -> DecoratorsAdder_leave_FunctionDef(p, st, line)
      [] p.mode = "DecoratorsRemover" -> DecoratorsRemover_leave_FunctionDef(p, st, line)
      [] OTHER -> st

leave_ExceptHandler(p, h, func_scope) ==
    CASE p.mode = "TryExceptAdder" -> TryExceptAdder_leave_ExceptHandler(p, h, func_scope)
      [] p.mode = "TryExceptRemover" -> TryExceptRemover_leave_ExceptHandler(p, h, func_scope)
      [] OTHER -> h

(* The CSTTransformer traversal: children first, positions and func_scope  *)
(* taken from the tree the transformer was started on.                     *)
RECURSIVE Rewrite(_, _, _, _), RewriteStmt(_, _, _, _), RewriteHandlers(_, _, _, _)
RewriteStmt(st, line0, func_scope, p) ==
    LET l == line0 + st.lead IN
    CASE st.t = "line" -> st
      [] st.t = "def" ->
            LET dl == l + Len(st.decos) IN
            leave_FunctionDef(
                p, [st EXCEPT !.body = Rewrite(st.body, dl + 1, Append(func_scope, dl), p)], dl)
      [] st.t \in {"class", "block"} ->
            [st EXCEPT !.body = Rewrite(st.body, l + 1, func_scope, p)]
      [] st.t = "try" ->
            [st EXCEPT !.body = Rewrite(st.body, l + 1, func_scope, p),
                       !.handlers = RewriteHandlers(st.handlers, l + 1 + BodyHeight(st.body),
                                                    func_scope, p)]

Rewrite(body, line0, func_scope, p) ==
    IF body = <<>> THEN <<>>
    ELSE <<RewriteStmt(Head(body), line0, func_scope, p)>>
         \o Rewrite(Tail(body), line0 + Height(Head(body)), func_scope, p)

RewriteHandlers(hs, line0, func_scope, p) ==
    IF hs = <<>> THEN <<>>
    ELSE LET h == Head(hs) IN
         <<leave_ExceptHandler(
               p, [h EXCEPT !.body = Rewrite(h.body, line0 + h.lead + 1, func_scope, p)],
               func_scope)>>
         \o RewriteHandlers(Tail(hs), line0 + h.lead + 1 + BodyHeight(h.body), func_scope, p)

Transform(file, mode, reporter_imported_as, kind, lines) ==
    [file EXCEPT !.body =
        Rewrite(file.body, FirstLine(file), <<>>,
                [mode |-> mode, as |-> reporter_imported_as, kind |-> kind, lines |-> lines])]

DecoratorsAdderTransformer(file, reporter_imported_as, decorator_type, lines_to_add) ==
    Transform(file, "DecoratorsAdder", reporter_imported_as, decorator_type, lines_to_add)

DecoratorsRemoverTransformer(file, reporter_imported_as, decorator_type, lines_to_remove) ==
    Transform(file, "DecoratorsRemover", reporter_imported_as, decorator_type, lines_to_remove)

TryExceptAdderTransformer(file, reporter_imported_as, linenos) ==
    Transform(file, "TryExceptAdder", reporter_imported_as, "", linenos)

TryExceptRemoverTransformer(file, reporter_imported_as, linenos) ==
    Transform(file, "TryExceptRemover", reporter_imported_as, "", linenos)

(***************************************************************************)
(* manager.PackageFileManager.  A manager operation yields                 *)
(* [file, err]: the syntax tree it holds afterwards and the exception it   *)
(* raised ("" for none).                                                   *)
(***************************************************************************)
Ok(file) == [file |-> file, err |-> ""]
Raise(file, err) == [file |-> file, err |-> err]

(* write_to_file followed by a fresh parse_module: the leading lines of    *)
(* the first statement belong to the Module header.                        *)
(* mutant: the written text has lost its leading lines *)
write_to_file_stripped(file) ==
    IF file.body # <<>>
    THEN [header |-> 0, body |-> [file.body EXCEPT ![1].lead = 0]]
    ELSE [header |-> 0, body |-> <<>>]

write_to_file(file) ==
    IF file.body # <<>> /\ file.body[1].lead > 0
    THEN [header |-> file.header + file.body[1].lead,
          body |-> [file.body EXCEPT ![1].lead = 0]]
    ELSE file

add_reporter_import(file, cfg) ==
    IF is_reporter_imported(Visit(file, cfg)) THEN Ok(file)
    ELSE LET modified == [file EXCEPT !.body =
                             ImportReporterTransformer(file.body, cfg.path, cfg.name)]
             visitor == Visit(modified, cfg)
         IN IF visitor.ReporterImportedAs = "" \/ visitor.ReporterImportedAt = -1
            THEN Raise(modified, "GenerateReporterError")
            ELSE Ok(modified)

ensure_import_reporter(file, cfg) ==
    IF ~is_reporter_imported(Visit(file, cfg))
    THEN add_reporter_import(file, cfg)
    ELSE Ok(file)

add_call(file, cfg, call_type) ==
    IF get_calls(Visit(file, cfg), call_type) # <<>> THEN Ok(file)
    ELSE LET imported == ensure_import_reporter(file, cfg) IN
         IF imported.err # "" THEN imported
         ELSE LET added == ReporterCallsAdderTransformer(
                               imported.file.body,
                               Visit(imported.file, cfg).ReporterImportedAs, call_type)
              IN IF added.raised THEN Raise(imported.file, "Exception")
                 ELSE Ok([imported.file EXCEPT !.body = added.body])

remove_call(file, cfg, call_type) ==
    Ok([file EXCEPT !.body =
           ReporterCallsRemoverTransformer(
               file.body, Visit(file, cfg).ReporterImportedAs, call_type)])

Shift(linenos, d) == {x + d : x \in linenos}

add_decorators(file, cfg, decorator_type, linenos) ==
    LET was_imported == is_reporter_imported(Visit(file, cfg))
        imported == IF was_imported THEN Ok(file) ELSE add_reporter_import(file, cfg)
        func_linenos == IF was_imported THEN linenos ELSE Shift(linenos, 1)
    IN IF imported.err # "" THEN imported
       ELSE LET decorated == DecoratorsAdderTransformer(
                                 imported.file,
                                 Visit(imported.file, cfg).ReporterImportedAs,
                                 decorator_type, func_linenos)
            IN IF decorator_type = DECORATOR_TYPE_RECORD_ERRORS
               THEN Ok(TryExceptAdderTransformer(
                           decorated, Visit(decorated, cfg).ReporterImportedAs,
                           Shift(func_linenos, 1)))
               ELSE Ok(decorated)

remove_decorators(file, cfg, decorator_type, linenos) ==
    LET undecorated == DecoratorsRemoverTransformer(
                           file, Visit(file, cfg).ReporterImportedAs,
                           decorator_type, linenos)
    IN IF decorator_type = DECORATOR_TYPE_RECORD_ERRORS
       THEN Ok(TryExceptRemoverTransformer(
                   undecorated, Visit(undecorated, cfg).ReporterImportedAs,
                   Shift(linenos, -1)))
       ELSE Ok(undecorated)

(***************************************************************************)
(* operations: each loads the file into a fresh PackageFileManager, runs   *)
(* the manager operation and writes the file.  The result is               *)
(* [file, err]: the file on disk afterwards and the exception raised.      *)
(***************************************************************************)
(* PackageFileManager(repository, filepath) followed by op and write_to_file *)
(* an operation on one PackageFileManager: the constructor raises what      *)
(* get_reporter_import_information raises (cfg.err) or what the visit      *)
(* raises, before anything is transformed or written                       *)
Managed(file, cfg, result) ==
    IF cfg.err # "" THEN Raise(file, cfg.err)
    ELSE IF Visit(file, cfg).crash THEN Raise(file, "AttributeError")
    ELSE IF result.err # "" THEN Raise(file, result.err)
    ELSE Ok(write_to_file(result.file))

RecordLines(records) == {records[i].lineno : i \in 1..Len(records)}

op_list_calls(file, cfg, call_type) == get_calls(Visit(file, cfg), call_type)

op_list_decorators(file, cfg, decorator_type) ==
    list_decorators(Visit(file, cfg), decorator_type)

op_decorator_candidates(file, cfg, decorator_type) ==
    decorator_candidates(file, Visit(file, cfg), decorator_type)

op_ensure_import(file, cfg) == Managed(file, cfg, ensure_import_reporter(file, cfg))

op_add_call(file, cfg, call_type) == Managed(file, cfg, add_call(file, cfg, call_type))

op_remove_calls(file, cfg, call_type) ==
    Managed(file, cfg, remove_call(file, cfg, call_type))

(* mutant: the requested lines are not compared with the candidates *)
op_add_decorators_unchecked(file, cfg, decorator_type, linenos) ==
    Managed(file, cfg, add_decorators(file, cfg, decorator_type, linenos))

op_add_decorators(file, cfg, decorator_type, linenos) ==
    IF cfg.err # "" THEN Raise(file, cfg.err)
    ELSE IF Visit(file, cfg).crash THEN Raise(file, "AttributeError")
    ELSE IF \E lineno \in linenos :
               lineno \notin RecordLines(op_decorator_candidates(file, cfg, decorator_type))
    THEN Raise(file, "GenerateDecoratorError")
    ELSE Managed(file, cfg, add_decorators(file, cfg, decorator_type, linenos))

op_remove_decorators(file, cfg, decorator_type, linenos) ==
    IF cfg.err # "" THEN Raise(file, cfg.err)
    ELSE IF Visit(file, cfg).crash THEN Raise(file, "AttributeError")
    ELSE IF \E lineno \in linenos :
               lineno \notin RecordLines(op_list_decorators(file, cfg, decorator_type))
    THEN Raise(file, "GenerateDecoratorError")
    ELSE Managed(file, cfg, remove_decorators(file, cfg, decorator_type, linenos))

(* operations.list_calls(call_type, repository, candidate_files) with the  *)
(* one candidate file: the mapping holds the records of the file if there  *)
(* are any, and the constructor of its PackageFileManager may raise        *)
list_calls(file, cfg, call_type) ==
    IF cfg.err # "" THEN [err |-> cfg.err, results |-> <<>>]
    ELSE IF Visit(file, cfg).crash THEN [err |-> "AttributeError", results |-> <<>>]
    ELSE [err |-> "", results |-> op_list_calls(file, cfg, call_type)]

(* operations.list_decorators(decorator_type, repository, [file]) *)
operations_list_decorators(file, cfg, decorator_type) ==
    IF cfg.err # "" THEN [err |-> cfg.err, results |-> <<>>]
    ELSE IF Visit(file, cfg).crash THEN [err |-> "AttributeError", results |-> <<>>]
    ELSE [err |-> "", results |-> op_list_decorators(file, cfg, decorator_type)]

(* operations.decorator_candidates(decorator_type, repository, file) *)
operations_decorator_candidates(file, cfg, decorator_type) ==
    IF cfg.err # "" THEN [err |-> cfg.err, results |-> <<>>]
    ELSE IF Visit(file, cfg).crash THEN [err |-> "AttributeError", results |-> <<>>]
    ELSE [err |-> "", results |-> op_decorator_candidates(file, cfg, decorator_type)]

DEFAULT_REPORTER_FILENAME == "report.py"
DEFAULT_REPORTER_OBJECT_NAME == "reporter"
NoToken == "<None>"

(* the characters of a path component *)
Chars(component) ==
    CASE component = "pkg" -> <<"p", "k", "g">>
      [] component = "repo" -> <<"r", "e", "p", "o">>
      [] component = "report.py" -> <<"r", "e", "p", "o", "r", "t", ".", "p", "y">>
      [] component = "reporter.py" ->
            <<"r", "e", "p", "o", "r", "t", "e", "r", ".", "p", "y">>
      [] component = "utils" -> <<"u", "t", "i", "l", "s">>
      [] component = "sub" -> <<"s", "u", "b">>
      [] component = "a.py" -> <<"a", ".", "p", "y">>

(* the path as the string the operations receive: components joined by "/" *)
RECURSIVE PathString(_)
PathString(path) ==
    IF path = <<>> THEN <<>>
    ELSE IF Len(path) = 1 THEN Chars(path[1])
    ELSE Chars(Head(path)) \o <<"/">> \o PathString(Tail(path))

(* os.path.commonprefix([a, b]): the longest common prefix, character by   *)
(* character                                                               *)
commonprefix(a, b) == SubSeq(a, 1, CommonLength(a, b))

(* the file add_reporter writes: two imports and two instantiations *)
REPORTER_FILE_TEMPLATE ==
    [header |-> 0,
     body |-> << Line(0, 1, <<ImportFrom(0, <<"humbug", "consent">>,
                                          <<ImportAlias("HumbugConsent", "")>>)>>),
                 Line(0, 1, <<ImportFrom(0, <<"humbug", "reporter">>,
                                          <<ImportAlias("HumbugReporter", "")>>)>>),
                 Line(0, 1, <<Other("consent")>>),
                 Line(0, 1, <<Other("reporter")>>) >>]

AddReporterError(configuration, files) ==
    [err |-> "GenerateReporterError", configuration |-> configuration, files |-> files,
     written |-> None]

(* mutant: an existing file is never overwritten, force or not *)
add_reporter_never_overwrites(repository, configuration, files, reporter_filepath, force) ==
    LET chosen == IF reporter_filepath = None
                  THEN IF configuration.reporter_filepath # None
                       THEN configuration.reporter_filepath
                       ELSE <<DEFAULT_REPORTER_FILENAME>>
                  ELSE reporter_filepath
        final == IF commonprefix(PathString(repository), PathString(chosen))
                        # PathString(repository)
                 THEN repository \o chosen
                 ELSE chosen
    IN IF /\ reporter_filepath # None
          /\ configuration.reporter_filepath # None
          /\ configuration.reporter_filepath # reporter_filepath
       THEN AddReporterError(configuration, files)
       ELSE IF final \in files
       THEN AddReporterError(configuration, files)
       ELSE IF configuration.reporter_token = NoToken
       THEN AddReporterError(configuration, files)
       ELSE [err |-> "",
             configuration |-> [configuration EXCEPT !.reporter_filepath = final],
             files |-> files \cup {final},
             written |-> final]

(* operations.add_reporter(repository, reporter_filepath, force) on the    *)
(* loaded configuration and the set of paths that exist                    *)
add_reporter(repository, configuration, files, reporter_filepath, force) ==
    LET chosen == IF reporter_filepath = None
                  THEN IF configuration.reporter_filepath # None
                       THEN configuration.reporter_filepath
                       ELSE <<DEFAULT_REPORTER_FILENAME>>
                  ELSE reporter_filepath
        final == IF commonprefix(PathString(repository), PathString(chosen))
                        # PathString(repository)
                 THEN repository \o chosen
                 ELSE chosen
    IN IF /\ reporter_filepath # None
          /\ configuration.reporter_filepath # None
          /\ configuration.reporter_filepath # reporter_filepath
       THEN AddReporterError(configuration, files)
       ELSE IF ~force /\ final \in files
       THEN AddReporterError(configuration, files)
       ELSE IF configuration.reporter_token = NoToken
       THEN AddReporterError(configuration, files)
       ELSE [err |-> "",
             configuration |-> [configuration EXCEPT !.reporter_filepath = final],
             files |-> files \cup {final},
             written |-> final]

(***************************************************************************)
(* config: the configuration file infestor.json of a repository, one       *)
(* sub-configuration per python root.  A dictionary is the sequence of its *)
(* items [key, value] in insertion order; a raw sub-configuration is a     *)
(* function from the keys it has to their values, and a python root is a   *)
(* path.  None is <<>> for reporter_filepath and NoToken for               *)
(* reporter_token.                                                         *)
(***************************************************************************)
REPORTER_TOKEN_KEY == "reporter_token"
PYTHON_ROOT_KEY == "python_root"
PROJECT_NAME_KEY == "project_name"
RELATIVE_IMPORTS_KEY == "relative_imports"
REPORTER_FILEPATH_KEY == "reporter_filepath"

(* the dataclass config.InfestorConfiguration, with its python_root *)
PythonRootConfiguration(python_root, project_name, relative_imports, reporter_token, reporter_filepath) ==
    [python_root |-> python_root, project_name |-> project_name,
     relative_imports |-> relative_imports, reporter_token |-> reporter_token,
     reporter_filepath |-> reporter_filepath]

DictKeys(dict) == {dict[i].key : i \in 1..Len(dict)}

DictGet(dict, key) == dict[CHOOSE i \in 1..Len(dict) : dict[i].key = key].value

(* dict[key] = value: an existing key keeps its place *)
DictSet(dict, key, value) ==
    IF key \in DictKeys(dict)
    THEN [i \in 1..Len(dict) |->
            IF dict[i].key = key THEN [key |-> key, value |-> value] ELSE dict[i]]
    ELSE Append(dict, [key |-> key, value |-> value])

(* subconfiguration.get(key) is None *)
IsNone(subconfiguration, key) ==
    \/ key \notin DOMAIN subconfiguration
    \/ key = REPORTER_TOKEN_KEY /\ subconfiguration[key] = NoToken
    \/ key = REPORTER_FILEPATH_KEY /\ subconfiguration[key] = None

(* one round of the loop of parse_config on the item (key_path,            *)
(* subconfiguration), from the results so far                              *)
parse_subconfiguration(key_path, subconfiguration, sofar) ==
    LET root_errors ==
            IF IsNone(subconfiguration, PYTHON_ROOT_KEY)
            THEN <<[key |-> key_path, message |-> "No Python root directory specified"]>>
            ELSE IF subconfiguration[PYTHON_ROOT_KEY] # key_path
            THEN <<[key |-> key_path,
                    message |-> "Python root directory differs from the configuration key"]>>
            ELSE <<>>
        python_root == IF IsNone(subconfiguration, PYTHON_ROOT_KEY)
                       THEN <<>> ELSE subconfiguration[PYTHON_ROOT_KEY]
        name_errors ==
            IF IsNone(subconfiguration, PROJECT_NAME_KEY)
            THEN <<[key |-> key_path, message |-> "No project name specified"]>>
            ELSE <<>>
        project_name == IF IsNone(subconfiguration, PROJECT_NAME_KEY)
                        THEN "" ELSE subconfiguration[PROJECT_NAME_KEY]
        relative_errors ==
            IF IsNone(subconfiguration, RELATIVE_IMPORTS_KEY)
            THEN <<[key |-> key_path,
                    message |-> "Configuration does not specify whether or not to use relative imports"]>>
            ELSE <<>>
        relative_imports == IF IsNone(subconfiguration, RELATIVE_IMPORTS_KEY)
                            THEN FALSE ELSE subconfiguration[RELATIVE_IMPORTS_KEY]
        token_warnings ==
            IF IsNone(subconfiguration, REPORTER_TOKEN_KEY)
            THEN <<[key |-> key_path, message |-> "No reporter token found"]>>
            ELSE <<>>
        reporter_token == IF IsNone(subconfiguration, REPORTER_TOKEN_KEY)
                          THEN NoToken ELSE subconfiguration[REPORTER_TOKEN_KEY]
        filepath_warnings ==
            IF IsNone(subconfiguration, REPORTER_FILEPATH_KEY)
            THEN <<[key |-> key_path, message |-> "No reporter filepath found"]>>
            ELSE <<>>
        reporter_filepath == IF IsNone(subconfiguration, REPORTER_FILEPATH_KEY)
                             THEN None ELSE subconfiguration[REPORTER_FILEPATH_KEY]
        error_messages == sofar.errors \o root_errors \o name_errors \o relative_errors
    IN [parsed |-> IF error_messages = <<>>
                   THEN DictSet(sofar.parsed, python_root,
                                PythonRootConfiguration(python_root, project_name,
                                                        relative_imports, reporter_token,
                                                        reporter_filepath))
                   ELSE sofar.parsed,
        warnings |-> sofar.warnings \o token_warnings \o filepath_warnings,
        errors |-> error_messages]

RECURSIVE parse_items(_, _)
parse_items(items, sofar) ==
    IF items = <<>> THEN sofar
    ELSE parse_items(Tail(items),
                     parse_subconfiguration(Head(items).key, Head(items).value, sofar))

(* config.parse_config: (parsed_config, warn_messages, error_messages) *)
parse_config(raw_config) ==
    parse_items(raw_config, [parsed |-> <<>>, warnings |-> <<>>, errors |-> <<>>])

(* no file infestor.json *)
NoConfigFile == <<[key |-> <<"<no file>">>, value |-> <<>>]>>

(* config.load_config on the contents of the file: [configuration, err] *)
load_config(contents) ==
    IF contents = NoConfigFile
    THEN [configuration |-> <<>>, err |-> "ConfigurationError"]
    ELSE LET parsed == parse_config(contents) IN
         IF parsed.errors # <<>>
         THEN [configuration |-> <<>>, err |-> "ConfigurationError"]
         ELSE [configuration |-> parsed.parsed, err |-> ""]

(* dataclasses.asdict(configuration), as json.dump writes and json.load     *)
(* reads it back                                                           *)
asdict(configuration) ==
    [key \in {PYTHON_ROOT_KEY, PROJECT_NAME_KEY, RELATIVE_IMPORTS_KEY, REPORTER_TOKEN_KEY,
              REPORTER_FILEPATH_KEY} |-> configuration[key]]

RECURSIVE asdict_items(_)
asdict_items(existing_configuration) ==
    IF existing_configuration = <<>> THEN <<>>
    ELSE <<[key |-> Head(existing_configuration).key,
            value |-> asdict(Head(existing_configuration).value)]>>
         \o asdict_items(Tail(existing_configuration))

(* mutant: the entries already in the file are not carried over *)
save_config_alone(contents, configuration) ==
    [contents |-> <<[key |-> configuration.python_root, value |-> asdict(configuration)]>>,
     err |-> ""]

(* config.save_config: [contents, err], the contents of the file after it *)
save_config(contents, configuration) ==
    LET existing == load_config(contents) IN
    IF contents # NoConfigFile /\ existing.err # ""
    THEN [contents |-> contents, err |-> existing.err]
    ELSE LET result_configuration ==
                 IF contents = NoConfigFile THEN <<>>
                 ELSE asdict_items(existing.configuration)
         IN [contents |-> DictSet(result_configuration, configuration.python_root,
                                  asdict(configuration)),
             err |-> ""]

(* the working directory, for os.path.abspath *)
WorkingDirectory == <<"home">>

abspath(path) == WorkingDirectory \o path

(* config.python_root_relative_to_repository_root; os.path.relpath gives   *)
(* "." for the start itself                                                *)
python_root_relative_to_repository_root(repository, python_root) ==
    LET relative_python_root == relpath(abspath(python_root), abspath(repository))
    IN IF relative_python_root = <<>> THEN <<".">> ELSE relative_python_root

(* config.initialize on the contents of the file *)
initialize(contents, repository, python_root, project_name, relative_imports, reporter_token) ==
    save_config(contents,
                PythonRootConfiguration(
                    python_root_relative_to_repository_root(repository, python_root),
                    project_name, relative_imports, reporter_token, None))

(***************************************************************************)
(* Bounds                                                                  *)
(***************************************************************************)
MaxHeader == 1
MaxStmts == 2
MaxSteps == 2
MaxPick == 1
MaxEntries == 2

(***************************************************************************)
(* Configurations (the triple get_reporter_import_information returns)     *)
(* and starting files                                                      *)
(***************************************************************************)
AbsoluteConfig ==
    [path |-> <<"pkg", ".", "report">>, relative |-> FALSE, name |-> "reporter", err |-> ""]
RelativeConfig ==
    [path |-> <<".", "report">>, relative |-> TRUE, name |-> "reporter", err |-> ""]
Configs == {AbsoluteConfig, RelativeConfig}

Pass == Line(0, 1, <<Other("pass")>>)

(* import os / the reporter import / reporter.system_report() /            *)
(* def f(): reporter.system_report() / if ...: <reporter import>           *)
Alphabet(c) ==
    { Line(0, 1, <<Import>>),
      ParseReporterImport(c.path, c.name),
      CallStatement(c.name, CALL_TYPE_SYSTEM_REPORT),
      Def(0, "f", <<>>, <<CallStatement(c.name, CALL_TYPE_SYSTEM_REPORT)>>),
      Block(0, <<ParseReporterImport(c.path, c.name)>>) }

(* a two-line from-import / the reporter import / def f(): pass /          *)
(* @staticmethod def g(): try: pass except: pass / def h(): def k(): pass  *)
DecoAlphabet(c) ==
    { Line(0, 2, <<ImportFrom(0, <<"typing">>, <<ImportAlias("List", "")>>)>>),
      ParseReporterImport(c.path, c.name),
      Def(0, "f", <<>>, <<Pass>>),
      Def(0, "g", <<Decorator("staticmethod", "")>>,
          <<Try(0, <<Pass>>, <<Handler(0, "", "", <<Pass>>)>>)>>),
      Def(0, "h", <<>>, <<Def(0, "k", <<>>, <<Pass>>)>>) }

Docstring == Line(0, 1, <<Other("docstring")>>)

FutureImport ==
    Line(0, 1, <<ImportFrom(0, <<"__future__">>, <<ImportAlias("annotations", "")>>)>>)

(* a docstring / from __future__ import annotations / import os /          *)
(* def f(): pass                                                           *)
DocstringAlphabet == {Docstring, FutureImport, Line(0, 1, <<Import>>), Def(0, "f", <<>>, <<Pass>>)}

(* the reporter import / reporter.system_report() /                        *)
(* def f(): def g(): reporter.system_report() /                            *)
(* class C: @reporter.record_call def m(): reporter.system_report()        *)
ScopeAlphabet(c) ==
    { ParseReporterImport(c.path, c.name),
      CallStatement(c.name, CALL_TYPE_SYSTEM_REPORT),
      Def(0, "f", <<>>,
          <<Def(0, "g", <<>>, <<CallStatement(c.name, CALL_TYPE_SYSTEM_REPORT)>>)>>),
      Class(0, "C",
            <<Def(0, "m", <<Decorator(c.name, DECORATOR_TYPE_RECORD_CALL)>>,
                  <<CallStatement(c.name, CALL_TYPE_SYSTEM_REPORT)>>)>>) }

(* import os / def f(): pass *)
ImportAlphabet == {Line(0, 1, <<Import>>), Def(0, "f", <<>>, <<Pass>>)}

(* import os / def f(): <reporter import>; reporter.system_report() /      *)
(* class C: <reporter import> / @reporter.record_call def g(): pass /      *)
(* reporter.system_report()                                                *)
NestedAlphabet(c) ==
    { Line(0, 1, <<Import>>),
      Def(0, "f", <<>>,
          <<ParseReporterImport(c.path, c.name),
            CallStatement(c.name, CALL_TYPE_SYSTEM_REPORT)>>),
      Class(0, "C", <<ParseReporterImport(c.path, c.name)>>),
      Def(0, "g", <<Decorator(c.name, DECORATOR_TYPE_RECORD_CALL)>>, <<Pass>>),
      CallStatement(c.name, CALL_TYPE_SYSTEM_REPORT) }

(* the reporter import / a blank line and reporter.system_report() /       *)
(* a blank line and def f(): reporter.system_report() /                    *)
(* @reporter.record_call def g(): pass                                     *)
ListingAlphabet(c) ==
    { ParseReporterImport(c.path, c.name),
      Line(1, 1, <<ExprCall(c.name, CALL_TYPE_SYSTEM_REPORT, "")>>),
      Def(1, "f", <<>>, <<CallStatement(c.name, CALL_TYPE_SYSTEM_REPORT)>>),
      Def(0, "g", <<Decorator(c.name, DECORATOR_TYPE_RECORD_CALL)>>, <<Pass>>) }

(* the reporter import / reporter.system_report() /                        *)
(* reporter.setup_excepthook() / other.system_report() /                   *)
(* reporter.system_report(); pass / def f(): reporter.system_report()      *)
RemoveAlphabet(c) ==
    { ParseReporterImport(c.path, c.name),
      CallStatement(c.name, CALL_TYPE_SYSTEM_REPORT),
      CallStatement(c.name, CALL_TYPE_SETUP_EXCEPTHOOK),
      CallStatement("other", CALL_TYPE_SYSTEM_REPORT),
      Line(0, 1, <<ExprCall(c.name, CALL_TYPE_SYSTEM_REPORT, ""), Other("pass")>>),
      Def(0, "f", <<>>, <<CallStatement(c.name, CALL_TYPE_SYSTEM_REPORT)>>) }

(* files of up to MaxStmts + 1 statements: an import, a call and a         *)
(* statement that stays                                                    *)
RemoveFiles(c) ==
    {[header |-> h, body |-> b] :
        h \in 0..MaxHeader,
        b \in UNION {[1..n -> RemoveAlphabet(c)] : n \in 0..(MaxStmts + 1)}}

BareTry == Try(0, <<Pass>>, <<Handler(0, "", "", <<Pass>>)>>)

(* import os / the reporter import / def f(): try: pass except: pass /     *)
(* def h(): def k(): try: pass except: pass /                              *)
(* try: pass except: pass                                                  *)
HandlerAlphabet(c) ==
    { Line(0, 1, <<Import>>),
      ParseReporterImport(c.path, c.name),
      Def(0, "f", <<>>, <<BareTry>>),
      Def(0, "h", <<>>, <<Def(0, "k", <<>>, <<BareTry>>)>>),
      BareTry }

Bodies(alphabet) == UNION {[1..n -> alphabet] : n \in 0..MaxStmts}

StartFiles(alphabet) ==
    {[header |-> h, body |-> b] : h \in 0..MaxHeader, b \in Bodies(alphabet)}

NoFile == [header |-> -1, body |-> <<>>]

(***************************************************************************)
(* State machine: one file of a repository and the operations applied to   *)
(* it, up to MaxSteps of them; an exception ends the run.                  *)
(* last records the latest operation: its name and arguments, the          *)
(* exception it raised, the file before it, whether the operation before   *)
(* it was the same one with the same arguments (rep) and whether that one  *)
(* changed the file (pchanged), and, for a remove_decorators directly      *)
(* after an add_decorators of the same kind, the file before that add      *)
(* (before2) and the lines that add was given (plines); for list_calls the  *)
(* mapping it returned (results); for add_reporter its arguments (path,    *)
(* force), the path it wrote (written) and the configuration and the       *)
(* existing paths before it (configuration, files).                        *)
(* The file is submodule_path in repository; configuration is the loaded   *)
(* configuration of the repository, files the paths that exist, and cfg    *)
(* what get_reporter_import_information answers for the file.              *)
(***************************************************************************)
VARIABLES cfg, file, last, repository, submodule_path, configuration, files, config_file

vars == <<cfg, file, last, repository, submodule_path, configuration, files, config_file>>

NoOperation ==
    [n |-> 0, op |-> "init", kind |-> "", lines |-> {}, err |-> "",
     before |-> NoFile, rep |-> FALSE, pchanged |-> FALSE, before2 |-> NoFile,
     plines |-> {}, results |-> <<>>, path |-> None, force |-> FALSE,
     written |-> None, configuration |-> None, files |-> {},
     contents |-> NoConfigFile, args |-> <<>>, fresh |-> FALSE]

(* a repository with its configuration and the file operated on *)
Project(repo, target, conf) ==
    /\ repository = repo
    /\ submodule_path = target
    /\ configuration = conf
    /\ files = {target} \cup (IF conf.reporter_filepath = None
                               THEN {} ELSE {conf.reporter_filepath})
    /\ cfg = get_reporter_import_information(repo, target, conf)

(* the package pkg with the reporter in pkg/report.py *)
Configurations ==
    {InfestorConfiguration("pkg", relative_imports, "token", <<"pkg", "report.py">>,
                           DEFAULT_REPORTER_OBJECT_NAME) : relative_imports \in BOOLEAN}

Init ==
    /\ \E conf \in Configurations : Project(<<"pkg">>, <<"pkg", "a.py">>, conf)
    /\ cfg \in Configs
    /\ file \in StartFiles(Alphabet(cfg))
    /\ last = NoOperation
    /\ config_file = NoConfigFile

InitDecos ==
    /\ \E conf \in Configurations : Project(<<"pkg">>, <<"pkg", "a.py">>, conf)
    /\ cfg \in Configs
    /\ file \in StartFiles(DecoAlphabet(cfg))
    /\ last = NoOperation
    /\ config_file = NoConfigFile

InitDocstring ==
    /\ \E conf \in Configurations : Project(<<"pkg">>, <<"pkg", "a.py">>, conf)
    /\ cfg \in Configs
    /\ file \in StartFiles(DocstringAlphabet)
    /\ last = NoOperation
    /\ config_file = NoConfigFile

(* the package pkg with the reporter in pkg/report.py, pkg/reporter.py or  *)
(* pkg/utils/report.py, bound to reporter or the_coolest_reporter          *)
ImportConfigurations ==
    {InfestorConfiguration("pkg", relative_imports, "token", reporter_filepath, reporter_object_name) :
        relative_imports \in BOOLEAN,
        reporter_filepath \in {<<"pkg", "report.py">>, <<"pkg", "reporter.py">>,
                               <<"pkg", "utils", "report.py">>},
        reporter_object_name \in {DEFAULT_REPORTER_OBJECT_NAME, "the_coolest_reporter"}}

InitImports ==
    /\ \E conf \in ImportConfigurations, target \in {<<"pkg", "a.py">>, <<"pkg", "sub", "a.py">>} :
          Project(<<"pkg">>, target, conf)
    /\ file \in StartFiles(ImportAlphabet)
    /\ last = NoOperation
    /\ config_file = NoConfigFile

(* sub-configurations as they stand in a file: complete ones for the roots *)
(* lol and rofl, one without a token, and ones with an error: no           *)
(* relative_imports, a key that is not the python root, no project name,   *)
(* no python root                                                          *)
RawItems ==
    { [key |-> <<"lol">>,
       value |-> asdict(PythonRootConfiguration(<<"lol">>, "lol", FALSE, "token",
                                                <<"report.py">>))],
      [key |-> <<"lol">>,
       value |-> asdict(PythonRootConfiguration(<<"lol">>, "lol", TRUE, NoToken, None))],
      [key |-> <<"rofl">>,
       value |-> asdict(PythonRootConfiguration(<<"rofl">>, "rofl", FALSE, "token",
                                                <<"report.py">>))],
      [key |-> <<"rofl">>,
       value |-> [python_root |-> <<"rofl">>, project_name |-> "rofl",
                  reporter_token |-> "token", reporter_filepath |-> <<"report.py">>]],
      [key |-> <<"rofl", "">>,
       value |-> asdict(PythonRootConfiguration(<<"rofl">>, "rofl", FALSE, "token",
                                                <<"report.py">>))],
      [key |-> <<"lol">>,
       value |-> [python_root |-> <<"lol">>, relative_imports |-> FALSE,
                  reporter_token |-> "token", reporter_filepath |-> <<"report.py">>]],
      [key |-> <<"lol">>,
       value |-> [project_name |-> "lol", relative_imports |-> FALSE,
                  reporter_token |-> "token", reporter_filepath |-> <<"report.py">>]] }

(* the dictionaries json.load can return: up to MaxEntries items, no key   *)
(* twice                                                                   *)
RawConfigs ==
    UNION {{raw \in [1..n -> RawItems] :
                \A i, j \in 1..n : raw[i].key = raw[j].key => i = j} : n \in 0..MaxEntries}

InitConfig ==
    /\ Project(<<"repo">>, <<"repo", "lol", "a.py">>,
               InfestorConfiguration("repo", FALSE, "token", <<"repo", "lol", "report.py">>, DEFAULT_REPORTER_OBJECT_NAME))
    /\ file = [header |-> 0, body |-> <<>>]
    /\ config_file \in {NoConfigFile} \cup RawConfigs
    /\ last = [NoOperation EXCEPT !.fresh = (config_file = NoConfigFile)]

InitNested ==
    /\ \E conf \in Configurations : Project(<<"pkg">>, <<"pkg", "a.py">>, conf)
    /\ cfg \in Configs
    /\ file \in StartFiles(NestedAlphabet(cfg))
    /\ last = NoOperation
    /\ config_file = NoConfigFile

InitListing ==
    /\ \E conf \in Configurations : Project(<<"pkg">>, <<"pkg", "a.py">>, conf)
    /\ cfg \in Configs
    /\ file \in StartFiles(ListingAlphabet(cfg))
    /\ last = NoOperation
    /\ config_file = NoConfigFile

InitRemove ==
    /\ \E conf \in Configurations : Project(<<"pkg">>, <<"pkg", "a.py">>, conf)
    /\ cfg \in Configs
    /\ file \in RemoveFiles(cfg)
    /\ last = NoOperation
    /\ config_file = NoConfigFile

InitHandlers ==
    /\ \E conf \in Configurations : Project(<<"pkg">>, <<"pkg", "a.py">>, conf)
    /\ cfg \in Configs
    /\ file \in StartFiles(HandlerAlphabet(cfg))
    /\ last = NoOperation
    /\ config_file = NoConfigFile

InitScopes ==
    /\ \E conf \in Configurations : Project(<<"pkg">>, <<"pkg", "a.py">>, conf)
    /\ cfg \in Configs
    /\ file \in StartFiles(ScopeAlphabet(cfg))
    /\ last = NoOperation
    /\ config_file = NoConfigFile

(* a query: nothing is written *)
Query(op, kind, result) ==
    /\ last.n < MaxSteps
    /\ last.err = ""
    /\ last' = [NoOperation EXCEPT !.n = last.n + 1, !.op = op, !.kind = kind,
                                   !.err = result.err, !.before = file,
                                   !.results = result.results,
                                   !.configuration = configuration, !.files = files,
                                   !.contents = config_file, !.fresh = last.fresh,
                                   !.pchanged = (last.n > 0 /\ last.before # file)]
    /\ UNCHANGED <<cfg, file, repository, submodule_path, configuration, files, config_file>>

Step(op, kind, lines, result) ==
    /\ last.n < MaxSteps
    /\ last.err = ""
    /\ file' = result.file
    /\ last' = [n |-> last.n + 1, op |-> op, kind |-> kind, lines |-> lines,
                err |-> result.err, before |-> file,
                rep |-> (last.op = op /\ last.kind = kind /\ last.lines = lines),
                pchanged |-> (last.n > 0 /\ last.before # file),
                before2 |-> IF /\ op = "remove_decorators"
                               /\ last.op = "add_decorators"
                               /\ last.kind = kind
                            THEN last.before ELSE NoFile,
                plines |-> IF /\ op = "remove_decorators"
                              /\ last.op = "add_decorators"
                              /\ last.kind = kind
                           THEN last.lines ELSE {},
                results |-> <<>>, path |-> None, force |-> FALSE, written |-> None,
                configuration |-> configuration, files |-> files,
                contents |-> config_file, args |-> <<>>, fresh |-> last.fresh]
    /\ UNCHANGED <<cfg, repository, submodule_path, configuration, files, config_file>>

RECURSIVE DefLinesOf(_)
DefLinesOf(evs) ==
    IF evs = <<>> THEN {}
    ELSE (IF Head(evs).e = "def" THEN {Head(evs).line} ELSE {}) \cup DefLinesOf(Tail(evs))

RECURSIVE DecoratorLinesOf(_)
DecoratorLinesOf(evs) ==
    IF evs = <<>> THEN {}
    ELSE (IF Head(evs).e = "def"
          THEN {Head(evs).decos[i].line : i \in 1..Len(Head(evs).decos)} ELSE {})
         \cup DecoratorLinesOf(Tail(evs))

DefLines(f) == DefLinesOf(FileEvents(f))
DecoratorLines(f) == DecoratorLinesOf(FileEvents(f))

(* the line lists a caller passes: up to MaxPick lines of the file, a      *)
(* whole listing, or a whole listing with one more line of the file        *)
Picks(S, listing) ==
    ({L \in SUBSET S : Cardinality(L) <= MaxPick}
        \cup {listing} \cup {listing \cup {l} : l \in S}) \ {{}}

EnsureImport == Step("ensure_import", "", {}, op_ensure_import(file, cfg))

AddCall ==
    \E call_type \in CallTypes :
        Step("add_call", call_type, {}, op_add_call(file, cfg, call_type))

RemoveCalls ==
    \E call_type \in CallTypes :
        Step("remove_calls", call_type, {}, op_remove_calls(file, cfg, call_type))

AddDecorators ==
    \E decorator_type \in DecoratorTypes :
        \E linenos \in Picks(DefLines(file),
                             RecordLines(op_decorator_candidates(file, cfg, decorator_type))) :
            Step("add_decorators", decorator_type, linenos,
                 op_add_decorators(file, cfg, decorator_type, linenos))

RemoveDecorators ==
    \E decorator_type \in DecoratorTypes :
        \E linenos \in Picks(DefLines(file) \cup DecoratorLines(file),
                             RecordLines(op_list_decorators(file, cfg, decorator_type))) :
            Step("remove_decorators", decorator_type, linenos,
                 op_remove_decorators(file, cfg, decorator_type, linenos))

ListCalls ==
    \E call_type \in CallTypes :
        Query("list_calls", call_type, list_calls(file, cfg, call_type))

ListDecorators ==
    \E decorator_type \in DecoratorTypes :
        Query("list_decorators", decorator_type,
              operations_list_decorators(file, cfg, decorator_type))

DecoratorCandidates ==
    \E decorator_type \in DecoratorTypes :
        Query("decorator_candidates", decorator_type,
              operations_decorator_candidates(file, cfg, decorator_type))

(* the reporter_filepath arguments: none, a path in the repository given   *)
(* from the repository, and the same path given with the repository        *)
ReporterArguments(repo) ==
    {None, <<"utils", "reporter.py">>, repo \o <<"utils", "reporter.py">>}

(* add_reporter writes the template, saves the configuration, and the      *)
(* next PackageFileManager resolves the import from the saved one          *)
AddReporter ==
    \E reporter_filepath \in ReporterArguments(repository), force \in BOOLEAN :
        LET result == add_reporter(repository, configuration, files, reporter_filepath,
                                   force) IN
        /\ last.n < MaxSteps
        /\ last.err = ""
        /\ last' = [NoOperation EXCEPT !.n = last.n + 1, !.op = "add_reporter",
                                       !.err = result.err, !.before = file,
                                       !.path = reporter_filepath, !.force = force,
                                       !.rep = (last.op = "add_reporter"),
                                       !.written = result.written,
                                       !.configuration = configuration, !.files = files]
        /\ configuration' = result.configuration
        /\ files' = result.files
        /\ file' = IF result.written = submodule_path THEN REPORTER_FILE_TEMPLATE ELSE file
        /\ cfg' = get_reporter_import_information(repository, submodule_path,
                                                  result.configuration)
        /\ UNCHANGED <<repository, submodule_path, config_file>>

Next ==
    \/ EnsureImport
    \/ AddCall
    \/ RemoveCalls
    \/ AddDecorators
    \/ RemoveDecorators

NextDecos ==
    \/ AddDecorators
    \/ RemoveDecorators

Spec == Init /\ [][Next]_vars

SpecDecos == InitDecos /\ [][NextDecos]_vars

NextScopes ==
    \/ ListCalls
    \/ ListDecorators
    \/ DecoratorCandidates

SpecScopes == InitScopes /\ [][NextScopes]_vars

NextImports ==
    \/ EnsureImport
    \/ AddCall

SpecImports == InitImports /\ [][NextImports]_vars

(* parse_config on the dictionary in the file *)
ParseConfig ==
    /\ last.n < MaxSteps
    /\ last.err = ""
    /\ config_file # NoConfigFile
    /\ last' = [NoOperation EXCEPT !.n = last.n + 1, !.op = "parse_config",
                                   !.before = file, !.contents = config_file,
                                   !.results = parse_config(config_file),
                                   !.configuration = configuration, !.files = files,
                                   !.fresh = last.fresh]
    /\ UNCHANGED <<cfg, file, repository, submodule_path, configuration, files, config_file>>

(* the python roots initialize is called with: two packages of the         *)
(* repository and the repository itself                                    *)
PythonRoots(repo) == {repo \o <<"lol">>, repo \o <<"rofl">>, repo}

Initialize ==
    \E python_root \in PythonRoots(repository), relative_imports \in BOOLEAN, reporter_token \in {NoToken, "token"} :
        LET project_name == basename(python_root)
            result == initialize(config_file, repository, python_root, project_name,
                                 relative_imports, reporter_token)
        IN /\ last.n < MaxSteps
           /\ last.err = ""
           /\ last' = [NoOperation EXCEPT
                          !.n = last.n + 1, !.op = "initialize", !.err = result.err,
                          !.before = file, !.contents = config_file,
                          !.args = [python_root |-> python_root,
                                    project_name |-> project_name,
                                    relative_imports |-> relative_imports,
                                    reporter_token |-> reporter_token],
                          !.configuration = configuration, !.files = files,
                          !.fresh = last.fresh]
           /\ config_file' = result.contents
           /\ UNCHANGED <<cfg, file, repository, submodule_path, configuration, files>>

NextConfig ==
    \/ ParseConfig
    \/ Initialize

SpecConfig == InitConfig /\ [][NextConfig]_vars

NextNested ==
    \/ EnsureImport
    \/ AddCall
    \/ ListCalls
    \/ ListDecorators

SpecNested == InitNested /\ [][NextNested]_vars

NextListing ==
    \/ EnsureImport
    \/ AddCall
    \/ RemoveCalls
    \/ AddDecorators
    \/ RemoveDecorators
    \/ ListCalls
    \/ ListDecorators
    \/ DecoratorCandidates

SpecListing == InitListing /\ [][NextListing]_vars

NextRemove ==
    \/ RemoveCalls
    \/ AddCall

SpecRemove == InitRemove /\ [][NextRemove]_vars

NextHandlers ==
    \/ AddDecorators
    \/ RemoveDecorators

SpecHandlers == InitHandlers /\ [][NextHandlers]_vars

NextDocstring ==
    \/ EnsureImport
    \/ AddCall

SpecDocstring == InitDocstring /\ [][NextDocstring]_vars

(* repositories pkg and repo, with or without a reporter file recorded, in *)
(* pkg/report.py or pkg/utils/reporter.py, with or without a token; the    *)
(* file is a module next to the reporter, deeper or higher than it, or the *)
(* reporter file itself                                                    *)
Repositories == {<<"pkg">>, <<"repo">>}

ReporterFiles(repo) == {None, repo \o <<"report.py">>, repo \o <<"utils", "reporter.py">>}

SubmodulePaths(repo) ==
    {repo \o <<"a.py">>, repo \o <<"sub", "a.py">>, repo \o <<"utils", "a.py">>,
     repo \o <<"report.py">>, repo \o <<"utils", "reporter.py">>}

RepositoryConfigurations(repo) ==
    {InfestorConfiguration(basename(repo), relative_imports, reporter_token,
                           reporter_filepath, DEFAULT_REPORTER_OBJECT_NAME) :
        relative_imports \in BOOLEAN, reporter_token \in {NoToken, "token"},
        reporter_filepath \in ReporterFiles(repo)}

(* empty / def f(): pass / the reporter import and a call / the same for   *)
(* the relative import                                                     *)
RepositoryFiles ==
    { [header |-> 0, body |-> <<>>],
      [header |-> 0, body |-> <<Def(0, "f", <<>>, <<Pass>>)>>],
      [header |-> 0,
       body |-> <<ParseReporterImport(<<"pkg", ".", "report">>, "reporter"),
                  CallStatement("reporter", CALL_TYPE_SYSTEM_REPORT)>>],
      [header |-> 0,
       body |-> <<ParseReporterImport(<<".", "report">>, "reporter"),
                  CallStatement("reporter", CALL_TYPE_SYSTEM_REPORT)>>] }

InitRepository ==
    /\ \E repo \in Repositories :
          \E target \in SubmodulePaths(repo), conf \in RepositoryConfigurations(repo) :
              Project(repo, target, conf)
    /\ file \in RepositoryFiles
    /\ last = NoOperation
    /\ config_file = NoConfigFile

NextRepository ==
    \/ AddReporter
    \/ ListCalls
    \/ AddCall
    \/ AddDecorators

SpecRepository == InitRepository /\ [][NextRepository]_vars

(***************************************************************************)
(* Properties                                                              *)
(***************************************************************************)
Succeeded(op) == last.op = op /\ last.err = ""

(* the naked (not nested in a function or class) imports of the reporter   *)
(* binding: from <reporter_module_path> import <reporter_object_name>      *)
IsReporterImport(ev, c) ==
    /\ ev.e = "from"
    /\ ev.scope = <<>>
    /\ ev.level = LeadingDots(c.path)
    /\ ev.module = NamesOf(DropTokens(c.path, LeadingDots(c.path)))
    /\ \E i \in 1..Len(ev.names) : ev.names[i].name = c.name

ReporterImportCount(f, c) ==
    Cardinality({i \in 1..Len(FileEvents(f)) : IsReporterImport(FileEvents(f)[i], c)})

C2_AddCallIdempotent ==
    (last.op = "add_call" /\ last.rep) => (file = last.before /\ last.err = "")

(* line of the i-th statement of the module body *)
StmtLine(f, i) == FirstLine(f) + BodyHeight(SubSeq(f.body, 1, i - 1)) + f.body[i].lead

(* last line of the i-th statement of the module body *)
StmtEndLine(f, i) == FirstLine(f) + BodyHeight(SubSeq(f.body, 1, i)) - 1

(* C3 (as claimed): after add-import on a file where the reporter was not  *)
(* imported, the reporter import is on the line after the last             *)
(* pre-existing top-level import, or on line 1 if there was none, the      *)
(* visitor reports ReporterCorrectlyImported and the reporter import is    *)
(* the last top-level import of the file.                                  *)
C3_ImportPlacement ==
    (Succeeded("ensure_import") /\ ~is_reporter_imported(Visit(last.before, cfg))) =>
        LET visitor == Visit(file, cfg)
            prior == LastImportIndex(last.before.body)
            expected == IF prior = 0 THEN 1 ELSE StmtEndLine(last.before, prior) + 1
            latest == LastImportIndex(file.body)
        IN /\ visitor.ReporterImportedAt = expected
           /\ visitor.ReporterCorrectlyImported
           /\ latest > 0
           /\ file.body[latest] = ParseReporterImport(cfg.path, cfg.name)
           /\ StmtLine(file, latest) = visitor.ReporterImportedAt

(* indexes of the module-body statements that are a sole call              *)
(* <binding>.<call_type>(...)                                              *)
TopLevelCalls(f, binding, call_type) ==
    {i \in 1..Len(f.body) : matches_reporter_call(f.body[i], binding, call_type)}

(* C4 (as claimed): when add_call inserts a call, the inserted statement   *)
(* is on the line right after the reporter import.                         *)
C4_CallFollowsImport ==
    (Succeeded("add_call") /\ file # last.before) =>
        LET visitor == Visit(file, cfg) IN
        \E i \in TopLevelCalls(file, visitor.ReporterImportedAs, last.kind) :
            StmtLine(file, i) = visitor.ReporterImportedAt + 1

(* C5 (as claimed): after a successful add_call(kind) the file has exactly *)
(* one top-level call statement of that kind.                              *)
C5_ExactlyOneTopLevelCall ==
    Succeeded("add_call") =>
        Cardinality(TopLevelCalls(file, Visit(file, cfg).ReporterImportedAs, last.kind)) = 1

(* C6 (as claimed): after remove_calls(kind), list_calls(kind) returns no  *)
(* record, wherever the calls of that kind were in the file.               *)
C6_NoCallListedAfterRemove ==
    Succeeded("remove_calls") => op_list_calls(file, cfg, last.kind) = <<>>

(* C6 (amended): after remove_calls(kind) no statement of the module body  *)
(* is a sole call <binding>.<kind>(...); calls nested in a function,       *)
(* class or other statement are not removed and stay listed.               *)
C6_NoTopLevelCallAfterRemove ==
    Succeeded("remove_calls") =>
        TopLevelCalls(file, Visit(file, cfg).ReporterImportedAs, last.kind) = {}

(* remove_calls deleted a top-level call and a nested call of the same     *)
(* kind is still listed                                                    *)
C6_Witness ==
    /\ Succeeded("remove_calls")
    /\ TopLevelCalls(last.before, Visit(last.before, cfg).ReporterImportedAs, last.kind) # {}
    /\ file # last.before
    /\ op_list_calls(file, cfg, last.kind) # <<>>

C7_WitnessNotImported ==
    /\ last.op = "remove_calls"
    /\ ~is_reporter_imported(Visit(last.before, cfg))
    /\ TopLevelCalls(last.before, cfg.name, last.kind) # {}
    /\ file = last.before

(* the function definitions of a file in document order, each with the     *)
(* line of its def keyword and its decorators                              *)
DefEvents(f) == SelectSeq(FileEvents(f), LAMBDA ev : ev.e = "def")

(* the decorator list of each function, without positions *)
DecoratorLists(f) ==
    [i \in 1..Len(DefEvents(f)) |->
        [j \in 1..Len(DefEvents(f)[i].decos) |->
            [recv |-> DefEvents(f)[i].decos[j].recv,
             attr |-> DefEvents(f)[i].decos[j].attr]]]

IsDecorated(ev, binding, decorator_type) ==
    \E j \in 1..Len(ev.decos) :
        ev.decos[j].recv = binding /\ ev.decos[j].attr = decorator_type

(* C8 (as claimed): after add_decorators(kind, L) with L the lines of all  *)
(* the candidates of the file, the file has no candidate left and          *)
(* list_decorators(kind) has as many records as there were candidates.     *)
C8_AllCandidatesDecorated ==
    LET candidates == op_decorator_candidates(last.before, cfg, last.kind) IN
    (Succeeded("add_decorators") /\ last.lines = RecordLines(candidates)) =>
        /\ op_decorator_candidates(file, cfg, last.kind) = <<>>
        /\ Len(op_list_decorators(file, cfg, last.kind)) = Len(candidates)

(* C9 (as claimed): when add_decorators adds the reporter import first,    *)
(* the functions that carry the decorator afterwards are exactly the       *)
(* functions whose def lines the caller supplied.                          *)
C9_ExactlySuppliedFunctionsDecorated ==
    (Succeeded("add_decorators") /\ ~is_reporter_imported(Visit(last.before, cfg))) =>
        /\ Len(DefEvents(file)) = Len(DefEvents(last.before))
        /\ \A i \in 1..Len(DefEvents(file)) :
               IsDecorated(DefEvents(file)[i], Visit(file, cfg).ReporterImportedAs, last.kind)
                   <=> DefEvents(last.before)[i].line \in last.lines

(* C10 (as claimed): add_decorators(kind, {L}) directly followed by        *)
(* remove_decorators(kind, {L}) leaves every function with the decorator   *)
(* list it had before the add.                                             *)
C10_DecorationRoundTrip ==
    (/\ last.op = "remove_decorators"
     /\ last.before2 # NoFile
     /\ last.plines = last.lines
     /\ Cardinality(last.lines) = 1) =>
        DecoratorLists(file) = DecoratorLists(last.before2)

(* C11 (as claimed): after remove_decorators(kind, L) with L the lines of  *)
(* all the records list_decorators(kind) returns for the file,             *)
(* list_decorators(kind) returns no record for it.                         *)
C11_AllListedDecoratorsRemoved ==
    (/\ Succeeded("remove_decorators")
     /\ last.lines = RecordLines(op_list_decorators(last.before, cfg, last.kind))) =>
        op_list_decorators(file, cfg, last.kind) = <<>>

RECURSIVE OwnHandlers(_), OwnHandlersOf(_)
OwnHandlers(body) ==
    IF body = <<>> THEN <<>>
    ELSE LET st == Head(body)
             own == CASE st.t \in {"class", "block"} -> OwnHandlers(st.body)
                      [] st.t = "try" -> OwnHandlers(st.body) \o OwnHandlersOf(st.handlers)
                      [] OTHER -> <<>>
         IN own \o OwnHandlers(Tail(body))

OwnHandlersOf(hs) ==
    IF hs = <<>> THEN <<>>
    ELSE <<Head(hs)>> \o OwnHandlers(Head(hs).body) \o OwnHandlersOf(Tail(hs))

(* for each function definition of a body, in the order of DefEvents, the  *)
(* except-handlers it owns                                                 *)
RECURSIVE FunctionHandlers(_), FunctionHandlersOf(_)
FunctionHandlers(body) ==
    IF body = <<>> THEN <<>>
    ELSE LET st == Head(body)
             fns == CASE st.t = "def" -> <<OwnHandlers(st.body)>> \o FunctionHandlers(st.body)
                      [] st.t \in {"class", "block"} -> FunctionHandlers(st.body)
                      [] st.t = "try" ->
                            FunctionHandlers(st.body) \o FunctionHandlersOf(st.handlers)
                      [] OTHER -> <<>>
         IN fns \o FunctionHandlers(Tail(body))

FunctionHandlersOf(hs) ==
    IF hs = <<>> THEN <<>>
    ELSE FunctionHandlers(Head(hs).body) \o FunctionHandlersOf(Tail(hs))

(* the handler names its exception and reports it exactly once *)
IsWrapped(h, binding) ==
    /\ h.type # ""
    /\ h.asname # ""
    /\ Cardinality({i \in 1..Len(h.body) :
                       matches_error_report_statement(h.body[i], binding, h.asname)}) = 1

(* indexes, in DefEvents(last.before), of the functions whose def line the *)
(* caller supplied                                                         *)
ChosenFunctions == {i \in 1..Len(DefEvents(last.before)) : DefEvents(last.before)[i].line \in last.lines}

(* C13 (as claimed): after add_decorators(record_errors, L) every          *)
(* except-handler owned by a chosen function has an exception type, a      *)
(* bound name and exactly one error_report statement for that name.        *)
C13_EveryChosenHandlerWrapped ==
    (Succeeded("add_decorators") /\ last.kind = DECORATOR_TYPE_RECORD_ERRORS) =>
        /\ Len(FunctionHandlers(file.body)) = Len(DefEvents(last.before))
        /\ \A i \in ChosenFunctions :
               \A j \in 1..Len(FunctionHandlers(file.body)[i]) :
                   IsWrapped(FunctionHandlers(file.body)[i][j], Visit(file, cfg).ReporterImportedAs)

(* indexes, in DefEvents(last.before2), of the functions whose def line    *)
(* the add_decorators before the latest operation was given                *)
PreviouslyChosenFunctions ==
    {i \in 1..Len(DefEvents(last.before2)) : DefEvents(last.before2)[i].line \in last.plines}

(* the lines of the decorators of the kind that the functions S carry in   *)
(* file f: the lines list_decorators reports for them                      *)
DecoratorLinesFor(f, S, binding, decorator_type) ==
    UNION {{DefEvents(f)[i].decos[j].line :
               j \in {k \in 1..Len(DefEvents(f)[i].decos) :
                         matches_with_reporter_decorator(DefEvents(f)[i].decos[k],
                                                         binding, decorator_type)}} :
           i \in S \cap (1..Len(DefEvents(f)))}

(* C14 (as claimed): add_decorators(record_errors, L) directly followed by *)
(* remove_decorators(record_errors, ...) for the decorators of the same    *)
(* functions leaves every except-handler of those functions as it was      *)
(* before the add.                                                         *)
C14_HandlersRestored ==
    (/\ last.op = "remove_decorators"
     /\ last.kind = DECORATOR_TYPE_RECORD_ERRORS
     /\ last.before2 # NoFile
     /\ last.lines = DecoratorLinesFor(last.before, PreviouslyChosenFunctions,
                                       Visit(last.before, cfg).ReporterImportedAs, last.kind)) =>
        /\ Len(FunctionHandlers(file.body)) = Len(FunctionHandlers(last.before2.body))
        /\ \A i \in PreviouslyChosenFunctions :
               FunctionHandlers(file.body)[i] = FunctionHandlers(last.before2.body)[i]


(* C15: add_call and add_decorators fail with GenerateReporterError when   *)
(* the configuration has no reporter file recorded: nothing is inserted,   *)
(* the file, the existing paths and the configuration are as before.       *)
C15_NoReporterFileRejected ==
    (/\ last.op \in {"add_call", "add_decorators"}
     /\ last.configuration.reporter_filepath = None) =>
        /\ last.err = "GenerateReporterError"
        /\ file = last.before
        /\ files = last.files
        /\ configuration = last.configuration

(* add_decorators for the line of a function of the file was rejected      *)
(* because no reporter file is recorded                                    *)
C15_Witness ==
    /\ last.op = "add_decorators"
    /\ last.lines \subseteq DefLines(last.before)
    /\ configuration.reporter_filepath = None
    /\ last.err = "GenerateReporterError"
    /\ file = last.before


(* C16 (as claimed): list_calls on a repository whose configuration has no *)
(* reporter file recorded returns an empty mapping and raises no error.    *)
C16_ListCallsWithoutReporter ==
    (/\ last.op = "list_calls"
     /\ last.configuration.reporter_filepath = None) =>
        (last.err = "" /\ last.results = <<>>)


(* the reporter file is below the repository root *)
ReporterInRepository ==
    /\ configuration.reporter_filepath # None
    /\ Len(configuration.reporter_filepath) > Len(repository)
    /\ SubSeq(configuration.reporter_filepath, 1, Len(repository)) = repository

(* the reporter file as components below the repository root *)
ReporterBelowRoot ==
    SubSeq(configuration.reporter_filepath, Len(repository) + 1,
           Len(configuration.reporter_filepath))

(* C17: in absolute mode the import path is the repository basename, a dot *)
(* and the dotted path from the repository root to the reporter module     *)
(* without its .py suffix, whatever file of the repository is the target;  *)
(* resolving again with the same inputs gives the same answer.             *)
C17_AbsoluteImportPath ==
    (ReporterInRepository /\ ~configuration.relative_imports) =>
        LET expected ==
                CASE ReporterBelowRoot = <<"report.py">> ->
                        <<repository[Len(repository)], ".", "report">>
                  [] ReporterBelowRoot = <<"utils", "reporter.py">> ->
                        <<repository[Len(repository)], ".", "utils", ".", "reporter">>
        IN /\ cfg.err = ""
           /\ cfg.path = expected
           /\ ~cfg.relative
           /\ \A target \in SubmodulePaths(repository) :
                 get_reporter_import_information(repository, target, configuration).path
                     = expected
           /\ get_reporter_import_information(repository, submodule_path, configuration) = cfg

(* a PackageFileManager for a file of a subpackage was built with the      *)
(* absolute import path of pkg/utils/reporter.py                           *)
C17_Witness ==
    /\ Succeeded("list_calls")
    /\ ~configuration.relative_imports
    /\ configuration.reporter_filepath = <<"pkg", "utils", "reporter.py">>
    /\ submodule_path = <<"pkg", "sub", "a.py">>
    /\ cfg.path = <<"pkg", ".", "utils", ".", "reporter">>


(* the directory of a file *)
Directory(path) == SubSeq(path, 1, Len(path) - 1)

(* the deepest directory that holds both the file and the reporter file *)
CommonAncestorDirectory ==
    commonpath(Directory(submodule_path), Directory(configuration.reporter_filepath))

(* C18 (as claimed): in relative mode the import path starts with as many  *)
(* dots as the file is deep below the common ancestor directory of the     *)
(* file and the reporter file (one dot for a file in that directory),      *)
(* followed by the dotted path from that directory to the reporter module; *)
(* for a file in the directory of the reporter it is one dot and the       *)
(* reporter's basename.                                                    *)
C18_RelativeImportPath ==
    (configuration.reporter_filepath # None /\ configuration.relative_imports) =>
        LET ancestor == CommonAncestorDirectory
            depth == Len(submodule_path) - Len(ancestor)
            below == SubSeq(configuration.reporter_filepath, Len(ancestor) + 1,
                            Len(configuration.reporter_filepath))
            module == CASE below = <<"report.py">> -> <<"report">>
                        [] below = <<"reporter.py">> -> <<"reporter">>
                        [] below = <<"utils", "reporter.py">> -> <<"utils", ".", "reporter">>
        IN /\ cfg.err = ""
           /\ cfg.relative
           /\ cfg.path = [i \in 1..depth |-> "."] \o module


(* C19 (as claimed): after a successful add_reporter(repository) on a      *)
(* repository whose configuration had no reporter file, the reporter file  *)
(* exists at <repository>/report.py, the configuration records that path   *)
(* and no other field of the configuration has changed.                    *)
C19_ReporterAddedInRepository ==
    (/\ Succeeded("add_reporter")
     /\ last.path = None
     /\ last.configuration.reporter_filepath = None) =>
        /\ repository \o <<DEFAULT_REPORTER_FILENAME>> \in files
        /\ configuration =
              [last.configuration EXCEPT
                  !.reporter_filepath = repository \o <<DEFAULT_REPORTER_FILENAME>>]


(* indexes of the from __future__ imports of the module body *)
FutureImports(f) == {i \in 1..Len(f.body) : f.body[i] = FutureImport}

(* indexes of the reporter imports of the module body *)
ReporterImports(f, c) ==
    {i \in 1..Len(f.body) : f.body[i] = ParseReporterImport(c.path, c.name)}

(* C20 (as claimed): after an operation added the reporter import, a       *)
(* docstring that was the first statement of the file is still the first   *)
(* statement and every from __future__ import is above the reporter        *)
(* import, also in a file without any other import.                        *)
C20_DocstringAndFutureImportsKept ==
    (/\ last.op \in {"ensure_import", "add_call"}
     /\ last.err = ""
     /\ ReporterImports(last.before, cfg) = {}
     /\ ReporterImports(file, cfg) # {}) =>
        /\ (last.before.body # <<>> /\ last.before.body[1] = Docstring)
              => file.body[1] = Docstring
        /\ \A i \in FutureImports(file) : \A j \in ReporterImports(file, cfg) : i < j


(* the scopes (names of the enclosing definitions, outermost first) of the *)
(* calls that start on a line of the file                                  *)
CallScopesAt(f, line) ==
    {FileEvents(f)[i].scope : i \in {j \in 1..Len(FileEvents(f)) :
        FileEvents(f)[j].e = "call" /\ FileEvents(f)[j].line = line}}

(* C21 (as claimed): the scope path of every Call Record list_calls        *)
(* returns is the list of the names of the definitions that enclose the    *)
(* call, outermost first: <<>> at top level, <<"f", "g">> inside g nested  *)
(* in f.                                                                   *)
C21_ScopePathIsNameList ==
    Succeeded("list_calls") =>
        \A i \in 1..Len(last.results) :
            last.results[i].scope_stack \in CallScopesAt(file, last.results[i].lineno)


(* C22 (as claimed): for every configured binding name N, add-import       *)
(* inserts from <path> import N, the visitor then reports the reporter as  *)
(* imported under N, and add_call inserts N.<kind>() without raising.      *)
(* Stated for the reporter in pkg/report.py.                               *)
C22_AnyBindingNameImported ==
    (/\ last.op \in {"ensure_import", "add_call"}
     /\ configuration.reporter_filepath = <<"pkg", "report.py">>
     /\ ReporterImports(last.before, cfg) = {}) =>
        /\ last.err = ""
        /\ ReporterImports(file, cfg) # {}
        /\ Visit(file, cfg).ReporterImportedAs = configuration.reporter_object_name
        /\ last.op = "add_call" =>
              TopLevelCalls(file, configuration.reporter_object_name, last.kind) # {}

(* C23 (as claimed): for every import path the resolver produces, the      *)
(* from <path> import <binding> statement add-import inserts is detected   *)
(* by the visitor: the operation does not raise and the re-analysis        *)
(* reports the reporter as imported on the line of the inserted statement. *)
(* Stated for the binding name reporter.                                   *)
C23_EveryResolvedPathDetected ==
    (/\ last.op \in {"ensure_import", "add_call"}
     /\ configuration.reporter_object_name = DEFAULT_REPORTER_OBJECT_NAME
     /\ ReporterImports(last.before, cfg) = {}) =>
        /\ last.err = ""
        /\ \E i \in ReporterImports(file, cfg) :
              Visit(file, cfg).ReporterImportedAt = StmtLine(file, i)


(* the errors a sub-configuration has of its own *)
HasOwnError(item) ==
    \/ PYTHON_ROOT_KEY \notin DOMAIN item.value
    \/ PROJECT_NAME_KEY \notin DOMAIN item.value
    \/ RELATIVE_IMPORTS_KEY \notin DOMAIN item.value
    \/ item.value[PYTHON_ROOT_KEY] # item.key

(* C24 (as claimed): parse_config returns every sub-configuration that has *)
(* no error of its own, keyed by its python_root, and reports an error for *)
(* every invalid one, in whatever order the entries stand.                 *)
C24_ValidEntriesParsed ==
    last.op = "parse_config" =>
        \A i \in 1..Len(last.contents) :
            LET item == last.contents[i] IN
            IF HasOwnError(item)
            THEN /\ item.key \notin DictKeys(last.results.parsed)
                 /\ \E e \in 1..Len(last.results.errors) : last.results.errors[e].key = item.key
            ELSE /\ item.key \in DictKeys(last.results.parsed)
                 /\ asdict(DictGet(last.results.parsed, item.key)) = item.value


(* the keys of the file, none for a missing file *)
ConfiguredRoots(contents) == IF contents = NoConfigFile THEN {} ELSE DictKeys(contents)

(* the python root as the key of its entry: the path from the repository,   *)
(* "." for the repository itself                                            *)
RootKey(repo, python_root) ==
    IF python_root = repo THEN <<".">>
    ELSE SubSeq(python_root, Len(repo) + 1, Len(python_root))

(* C25: in a repository that had no configuration file at first, every     *)
(* initialize call succeeds and leaves a file with one entry per python    *)
(* root: the entries of the other roots are as before, and the entry of    *)
(* the initialized root holds the values of this call.                     *)
C25_OneEntryPerPythonRoot ==
    (last.op = "initialize" /\ last.fresh) =>
        LET key == RootKey(repository, last.args.python_root) IN
        /\ last.err = ""
        /\ config_file # NoConfigFile
        /\ \A i, j \in 1..Len(config_file) : config_file[i].key = config_file[j].key => i = j
        /\ DictKeys(config_file) = ConfiguredRoots(last.contents) \cup {key}
        /\ \A other \in ConfiguredRoots(last.contents) \ {key} :
              DictGet(config_file, other) = DictGet(last.contents, other)
        /\ DictGet(config_file, key) =
              [python_root |-> key, project_name |-> last.args.project_name,
               relative_imports |-> last.args.relative_imports,
               reporter_token |-> last.args.reporter_token, reporter_filepath |-> None]

(* lol was initialized a second time, now with relative imports, next to   *)
(* nothing else: still one entry, with relative_imports true               *)
C25_Witness ==
    /\ last.op = "initialize"
    /\ last.fresh
    /\ last.n = 2
    /\ last.args.python_root = <<"repo", "lol">>
    /\ last.args.relative_imports
    /\ last.contents # NoConfigFile
    /\ DictKeys(last.contents) = {<<"lol">>}
    /\ ~DictGet(last.contents, <<"lol">>).relative_imports
    /\ Len(config_file) = 1
    /\ DictGet(config_file, <<"lol">>).relative_imports


(* the from-imports of the reporter binding anywhere in the file *)
ImportsReporter(ev, c) ==
    /\ ev.e = "from"
    /\ ev.level = LeadingDots(c.path)
    /\ ev.module = NamesOf(DropTokens(c.path, LeadingDots(c.path)))
    /\ \E i \in 1..Len(ev.names) : ev.names[i].name = c.name

(* the file imports the reporter, and only in function or class bodies *)
ImportedOnlyNested(f, c) ==
    /\ \E i \in 1..Len(FileEvents(f)) : ImportsReporter(FileEvents(f)[i], c)
    /\ \A i \in 1..Len(FileEvents(f)) :
          ImportsReporter(FileEvents(f)[i], c) => FileEvents(f)[i].scope # <<>>

(* C26: a file that imports the reporter only inside a function or class   *)
(* body is treated as not importing it: list_calls and list_decorators     *)
(* return nothing, and add-import inserts a reporter import as a statement *)
(* of the module body, which the visitor then reports.                     *)
C26_OnlyTopLevelImportsCount ==
    (last.n > 0 /\ ImportedOnlyNested(last.before, cfg)) =>
        /\ ~is_reporter_imported(Visit(last.before, cfg))
        /\ last.op \in {"list_calls", "list_decorators"} =>
              (last.err = "" /\ last.results = <<>> /\ file = last.before)
        /\ last.op \in {"ensure_import", "add_call"} =>
              /\ last.err = ""
              /\ ReporterImports(last.before, cfg) = {}
              /\ Cardinality(ReporterImports(file, cfg)) = 1
              /\ \E i \in ReporterImports(file, cfg) :
                    Visit(file, cfg).ReporterImportedAt = StmtLine(file, i)

(* add-import ran on a file whose only reporter import was in the body of  *)
(* f, where a call on the reporter stands too, and put one at top level    *)
C26_Witness ==
    /\ Succeeded("ensure_import")
    /\ ImportedOnlyNested(last.before, cfg)
    /\ \E i \in 1..Len(last.before.body) :
          last.before.body[i].t = "def" /\ last.before.body[i].name = "f"
    /\ ReporterImports(file, cfg) # {}
    /\ is_reporter_imported(Visit(file, cfg))


Queries == {"list_calls", "list_decorators", "decorator_candidates"}

Mutators == {"ensure_import", "add_call", "remove_calls", "add_decorators", "remove_decorators"}

(* the syntax tree the PackageFileManager of the latest mutating operation *)
(* held when it wrote the file                                             *)
ManagerTree ==
    CASE last.op = "ensure_import" -> ensure_import_reporter(last.before, cfg).file
      [] last.op = "add_call" -> add_call(last.before, cfg, last.kind).file
      [] last.op = "remove_calls" -> remove_call(last.before, cfg, last.kind).file
      [] last.op = "add_decorators" ->
             add_decorators(last.before, cfg, last.kind, last.lines).file
      [] last.op = "remove_decorators" ->
             remove_decorators(last.before, cfg, last.kind, last.lines).file

(* what a PackageFileManager holding the tree answers *)
ManagerListing(op, kind, tree) ==
    CASE op = "list_calls" -> get_calls(Visit(tree, cfg), kind)
      [] op = "list_decorators" -> list_decorators(Visit(tree, cfg), kind)
      [] op = "decorator_candidates" -> decorator_candidates(tree, Visit(tree, cfg), kind)

(* what the operation answers for the file on disk *)
FreshListing(op, kind, f) ==
    CASE op = "list_calls" -> list_calls(f, cfg, kind)
      [] op = "list_decorators" -> operations_list_decorators(f, cfg, kind)
      [] op = "decorator_candidates" -> operations_decorator_candidates(f, cfg, kind)

SingleReporterCall(st, binding, call_type) ==
    /\ st.t = "line"
    /\ Len(st.body) = 1
    /\ st.body[1].s = "call"
    /\ st.body[1].recv = binding
    /\ st.body[1].attr = call_type

(* the statements of f that remove_call(call_type) has to leave alone *)
StatementsToKeep(f, binding, call_type) ==
    SelectSeq(f.body, LAMBDA st : ~SingleReporterCall(st, binding, call_type))

(* C28: remove_call(kind) deletes only top-level statements that are a     *)
(* single <binding>.<kind>(...) call: every other statement (the import,   *)
(* calls of other kinds or on other receivers, compound lines, function    *)
(* bodies) is in the file afterwards, in the original order, and nothing   *)
(* is added.                                                               *)
C28_RemoveCallDeletesOnlyCalls ==
    Succeeded("remove_calls") =>
        LET binding == Visit(last.before, cfg).ReporterImportedAs IN
        /\ file.header = last.before.header
        /\ StatementsToKeep(file, binding, last.kind)
              = StatementsToKeep(last.before, binding, last.kind)
        /\ Len(file.body) <= Len(last.before.body)

(* remove_call(system_report) deleted a call and left the import, a call   *)
(* of the other kind and a call on another receiver where they were        *)
C28_Witness ==
    /\ Succeeded("remove_calls")
    /\ last.kind = CALL_TYPE_SYSTEM_REPORT
    /\ Len(file.body) < Len(last.before.body)
    /\ \E i, j \in 1..Len(file.body) :
          /\ i < j
          /\ file.body[i] = ParseReporterImport(cfg.path, cfg.name)
          /\ file.body[j] \in {CallStatement(cfg.name, CALL_TYPE_SETUP_EXCEPTHOOK),
                               CallStatement("other", CALL_TYPE_SYSTEM_REPORT)}


(* C29 (as claimed): add_decorators(record_errors, L) leaves every         *)
(* except-handler unchanged whose innermost enclosing function was not     *)
(* chosen: the handlers at module level and the handlers owned by each     *)
(* function whose def line is not in L.                                    *)
C29_OnlyChosenHandlersModified ==
    (Succeeded("add_decorators") /\ last.kind = DECORATOR_TYPE_RECORD_ERRORS) =>
        /\ OwnHandlers(file.body) = OwnHandlers(last.before.body)
        /\ Len(FunctionHandlers(file.body)) = Len(DefEvents(last.before))
        /\ \A i \in 1..Len(DefEvents(last.before)) :
               i \notin ChosenFunctions =>
                   FunctionHandlers(file.body)[i] = FunctionHandlers(last.before.body)[i]


(* the path the latest add_reporter call asked for: its argument, else the *)
(* configured path, else the default file name                             *)
RequestedReporterPath ==
    IF last.path # None THEN last.path
    ELSE IF last.configuration.reporter_filepath # None
    THEN last.configuration.reporter_filepath
    ELSE <<DEFAULT_REPORTER_FILENAME>>

(* the file that call writes, the repository put in front where its name   *)
(* is not a prefix of the path                                             *)
ReporterDestination ==
    IF commonprefix(PathString(repository), PathString(RequestedReporterPath))
           # PathString(repository)
    THEN repository \o RequestedReporterPath
    ELSE RequestedReporterPath

(* a path was requested that is not the configured one *)
OtherPathRequested ==
    /\ last.path # None
    /\ last.configuration.reporter_filepath # None
    /\ last.configuration.reporter_filepath # last.path

====
